---- MODULE Spec2Model ----
(***************************************************************************)
(* A model of src/deterministic.py: the two-moons data synthesis, the      *)
(* training loop of the DeepResnet classifier, the evaluation forward pass *)
(* and the normalisation done by plot_uncertainty_surface.                 *)
(*                                                                         *)
(* Tensors of floats are modelled on a finite grid: a probability is a     *)
(* number of 1/Scale units, a parameter tensor is the count of optimizer   *)
(* updates applied to it, a gradient is the list of the minibatches whose  *)
(* loss was back-propagated into it.  A minibatch is the set of the        *)
(* indices of its examples, and a tensor over a minibatch is a function on *)
(* that set: every operation the script applies to a minibatch (row-wise   *)
(* forward pass, mean loss, mean accuracy) is independent of the row       *)
(* order.                                                                  *)
(***************************************************************************)
EXTENDS Integers, Sequences, FiniteSets

VARIABLES
    pc,             \* position of the script (line of src/deterministic.py)
    param,          \* resnet_model.parameters(): value of each tensor
    requires_grad,  \* param.requires_grad of each tensor
    grad,           \* param.grad of each tensor (None or accumulated gradient)
    training,       \* resnet_model.training (nn.Module mode flag)
    epoch,          \* loop variable of line 147
    sampler,        \* the dataloader iterator: the indices not yet yielded
    batch_idx,      \* number of minibatches fetched in this epoch
    x_train,        \* the current minibatch (indices into train_examples)
    probabilities,  \* line 154: output of the forward pass on x_train
    loss,           \* line 155
    losses,         \* line 148
    accs,           \* line 149
    avg_acc,        \* line 167
    applied,        \* gradient consumed by the latest optimizer.step()
    epoch_log,      \* history: the epochs entered so far, in order
    seen,           \* history: the minibatches yielded in this epoch
    eval_dropout,   \* whether dropout was active in resnet_model(test_examples)
    \* make_training_data
    d_pc,           \* position inside make_training_data
    sample_size,    \* its argument
    moons,          \* what make_moons returned: [X, y]
    d_examples,     \* its local train_examples, shifted in place
    d_ret,          \* what it returned: [examples, labels]
    \* make_testing_data and the reshape of plot_uncertainty_surface
    g_pc,           \* position inside make_testing_data
    x_range, y_range, n_grid,   \* its arguments
    g_x, g_y,       \* lines 57-58
    g_mesh,         \* line 59: [xv, yv]
    test_examples,  \* line 61: what it returned
    image,          \* line 193: the array handed to imshow
    \* the evaluation and the two plots, lines 209-227
    v_pc,           \* position of the script
    sigmoid_out,    \* torch.sigmoid(resnet_logits)
    resnet_probs,   \* line 210
    resnet_uncertainty,    \* line 223
    plot_input,     \* argument of the latest plot_uncertainty_surface call
    plot_output     \* line 185: the normalized array it rendered

trainVars == <<pc, param, requires_grad, grad, training, epoch, sampler,
               batch_idx, x_train, probabilities, loss, losses, accs, avg_acc,
               applied, epoch_log, seen, eval_dropout>>
dataVars == <<d_pc, sample_size, moons, d_examples, d_ret>>
gridVars == <<g_pc, x_range, y_range, n_grid, g_x, g_y, g_mesh, test_examples,
              image>>
plotVars == <<v_pc, sigmoid_out, resnet_probs, resnet_uncertainty, plot_input,
              plot_output>>
vars == <<trainVars, dataVars, gridVars, plotVars>>

----------------------------------------------------------------------------
(* Bounds of the model.  The training set is not a multiple of the         *)
(* minibatch length and the last minibatch holds more than one example, as *)
(* in the script (1000 = 7 * 128 + 104).                                   *)

\* number of training examples (2 * sample_size; 1000 in the script)
TrainSize == 5
\* line 142 (128 in the script)
batch_size == 3
\* line 141 (100 in the script)
num_epochs == 2

\* line 162: the threshold 0.5, in units of 1/Scale
Half == 2
\* probabilities are multiples of 1/Scale
Scale == 2 * Half

\* a param.grad: None, or the sum of the gradients of the losses of the
\* minibatches listed in terms
None == [none |-> TRUE, terms |-> <<>>]
Gradient(terms) == [none |-> FALSE, terms |-> terms]

----------------------------------------------------------------------------
(* The model and the optimizer *)

\* DeepResnet.__init__: the parameter tensors registered by the module
ParamNames ==
    {"input_layer.weight", "input_layer.bias", "linears", "classifier"}

\* resnet_model.input_layer.parameters()
InputLayerParams == {"input_layer.weight", "input_layer.bias"}

\* value of every tensor right after construction
InitialValue == [p \in ParamNames |-> 0]

\* faulty variant: the freeze loop is missing
FreezeNothing(rg) == rg

\* lines 136-137: for param in input_layer.parameters(): requires_grad = False
FreezeInputLayer(rg) ==
    [p \in ParamNames |-> IF p \in InputLayerParams THEN FALSE ELSE rg[p]]

\* faulty variant: zero_grad() is not called
ZeroGradSkipped(g) == g

\* optimizer.zero_grad(): every parameter's grad is dropped
ZeroGrad(g) == [p \in ParamNames |-> None]

\* loss.backward(): the gradient of l is accumulated (+=) into the grad of
\* every tensor that requires grad; the others are left alone
Backward(g, rg, l) ==
    [p \in ParamNames |->
        IF rg[p]
        THEN Gradient(Append(g[p].terms, l.batch))
        ELSE g[p]]

\* optimizer.step() of Adam over resnet_model.parameters(): a parameter
\* whose grad is None is skipped, every other one is updated
AdamStep(w, g) ==
    [p \in ParamNames |-> IF g[p].none THEN w[p] ELSE w[p] + 1]

\* nn.Dropout.forward: the mask is applied iff the module is in training mode
DropoutActive(mode) == mode

----------------------------------------------------------------------------
(* The data *)

Examples == 1..TrainSize

\* train_labels: the label of every training example, both classes present
train_labels == [i \in Examples |-> i % 2]

ProbLevels == 1..(Scale - 1)

\* binary cross entropy of one example in units of 0.01 (-ln of k/4)
NegLog(k) == CASE k = 1 -> 139 [] k = 2 -> 69 [] k = 3 -> 29 [] OTHER -> 0

\* nn.BCELoss (mean reduction) as the pair total / count
BCELoss(pr, y) ==
    LET cost(i) == IF y[i] = 1 THEN NegLog(pr[i]) ELSE NegLog(Scale - pr[i])
        sum[S \in SUBSET DOMAIN pr] ==
            IF S = {} THEN 0
            ELSE LET i == CHOOSE j \in S : TRUE IN cost(i) + sum[S \ {i}]
    IN  [num |-> sum[DOMAIN pr], den |-> Cardinality(DOMAIN pr)]

\* faulty variant: the threshold is not strict
PredictAtLeastHalf(p) == IF p >= Half THEN 1 ELSE 0

\* line 162: predictions = (probabilities > 0.5).float()
Predict(p) == IF p > Half THEN 1 ELSE 0

\* lines 163-164: torch.mean((predictions == y_train).float()) as the pair
\* number correct / batch length
Accuracy(pr, y) ==
    [num |-> Cardinality({i \in DOMAIN pr : Predict(pr[i]) = y[i]}),
     den |-> Cardinality(DOMAIN pr)]

\* sum(accs) / len(accs) as an exact fraction num / den
RECURSIVE SumFrac(_)
SumFrac(s) ==
    IF s = <<>> THEN [num |-> 0, den |-> 1]
    ELSE LET r == SumFrac(Tail(s))
         IN  [num |-> Head(s).num * r.den + r.num * Head(s).den,
              den |-> Head(s).den * r.den]

Mean(s) == LET t == SumFrac(s) IN [num |-> t.num, den |-> t.den * Len(s)]

Min(a, b) == IF a < b THEN a ELSE b

\* faulty variant: the minibatch is one index short
BatchLenOffByOne(pool) == Min(batch_size - 1, Cardinality(pool))

\* BatchSampler with drop_last=False: a minibatch holds batch_size indices,
\* or the remaining ones when fewer are left
BatchLen(pool) == Min(batch_size, Cardinality(pool))

\* RandomSampler (shuffle=True): the next indices are any of those the
\* iterator has not yielded yet
Batches(pool) == {b \in SUBSET pool : Cardinality(b) = BatchLen(pool)}

----------------------------------------------------------------------------
(* The script, line 133 onwards *)

\* faulty variant: the loop stops as soon as an epoch is classified perfectly
RangeStopsEarly(e) == e < num_epochs /\ avg_acc.num # avg_acc.den

\* line 147: range(num_epochs) has a value left for the loop variable
RangeHasNext(e) == e < num_epochs

NoProbs == [vals |-> <<>>, batch |-> <<0, 0>>, ver |-> 0, dropout |-> FALSE]
NoLoss == [num |-> 0, den |-> 1, batch |-> <<0, 0>>]

\* line 133: the model is constructed; nn.Module starts in training mode and
\* nn.Linear parameters require grad
TrainInit ==
    /\ pc = "freeze"
    /\ param = InitialValue
    /\ requires_grad = [p \in ParamNames |-> TRUE]
    /\ grad = [p \in ParamNames |-> None]
    /\ training = TRUE
    /\ epoch = 0
    /\ sampler = {}
    /\ batch_idx = 0
    /\ x_train = {}
    /\ probabilities = NoProbs
    /\ loss = NoLoss
    /\ losses = <<>>
    /\ accs = <<>>
    /\ avg_acc = [num |-> 0, den |-> 1]
    /\ applied = [p \in ParamNames |-> None]
    /\ epoch_log = <<>>
    /\ seen = <<>>
    /\ eval_dropout = FALSE

\* lines 136-145
Freeze ==
    /\ pc = "freeze"
    /\ requires_grad' = FreezeInputLayer(requires_grad)
    /\ pc' = "epoch"
    /\ UNCHANGED <<dataVars, gridVars, plotVars,
                   param, grad, training, epoch, sampler, batch_idx, x_train,
                   probabilities, loss, losses, accs, avg_acc, applied,
                   epoch_log, seen, eval_dropout>>

\* lines 147-151: the next epoch is entered, the lists are emptied and the
\* dataloader iterator is created (shuffle=True draws a permutation)
EpochStart ==
    /\ pc = "epoch"
    /\ RangeHasNext(epoch)
    /\ losses' = <<>>
    /\ accs' = <<>>
    /\ epoch_log' = Append(epoch_log, epoch)
    /\ sampler' = Examples
    /\ batch_idx' = 0
    /\ seen' = <<>>
    /\ pc' = "fetch"
    /\ UNCHANGED <<dataVars, gridVars, plotVars,
                   param, requires_grad, grad, training, epoch, x_train,
                   probabilities, loss, avg_acc, applied, eval_dropout>>

\* line 147: range(num_epochs) is exhausted
TrainingDone ==
    /\ pc = "epoch"
    /\ ~RangeHasNext(epoch)
    /\ pc' = "eval"
    /\ UNCHANGED <<dataVars, gridVars, plotVars,
                   param, requires_grad, grad, training, epoch, sampler,
                   batch_idx, x_train, probabilities, loss, losses, accs,
                   avg_acc, applied, epoch_log, seen, eval_dropout>>

\* lines 151-152: the dataloader yields the next minibatch
NextBatch ==
    /\ pc = "fetch"
    /\ sampler # {}
    /\ \E b \in Batches(sampler) :
          /\ x_train' = b
          /\ sampler' = sampler \ b
          /\ seen' = Append(seen, b)
    /\ batch_idx' = batch_idx + 1
    /\ pc' = "forward"
    /\ UNCHANGED <<dataVars, gridVars, plotVars,
                   param, requires_grad, grad, training, epoch, probabilities,
                   loss, losses, accs, avg_acc, applied, epoch_log,
                   eval_dropout>>

\* line 151: the dataloader is exhausted
BatchesExhausted ==
    /\ pc = "fetch"
    /\ sampler = {}
    /\ pc' = "epoch_end"
    /\ UNCHANGED <<dataVars, gridVars, plotVars,
                   param, requires_grad, grad, training, epoch, sampler,
                   batch_idx, x_train, probabilities, loss, losses, accs,
                   avg_acc, applied, epoch_log, seen, eval_dropout>>

\* line 154: probabilities = sigmoid(resnet_model(x_train)).squeeze()
Forward ==
    /\ pc = "forward"
    /\ \E pr \in [x_train -> ProbLevels] :
          probabilities' = [vals |-> pr,
                            batch |-> <<epoch, batch_idx>>,
                            ver |-> param["classifier"],
                            dropout |-> DropoutActive(training)]
    /\ pc' = "loss"
    /\ UNCHANGED <<dataVars, gridVars, plotVars,
                   param, requires_grad, grad, training, epoch, sampler,
                   batch_idx, x_train, loss, losses, accs, avg_acc, applied,
                   epoch_log, seen, eval_dropout>>

\* line 152: the labels of the minibatch
YTrain == [i \in x_train |-> train_labels[i]]

\* lines 155-156
ComputeLoss ==
    /\ pc = "loss"
    /\ LET l == BCELoss(probabilities.vals, YTrain)
       IN  /\ loss' = [num |-> l.num, den |-> l.den, batch |-> probabilities.batch]
           /\ losses' = Append(losses, l)
    /\ pc' = "zero_grad"
    /\ UNCHANGED <<dataVars, gridVars, plotVars,
                   param, requires_grad, grad, training, epoch, sampler,
                   batch_idx, x_train, probabilities, accs, avg_acc, applied,
                   epoch_log, seen, eval_dropout>>

\* line 158
OptimizerZeroGrad ==
    /\ pc = "zero_grad"
    /\ grad' = ZeroGrad(grad)
    /\ pc' = "backward"
    /\ UNCHANGED <<dataVars, gridVars, plotVars,
                   param, requires_grad, training, epoch, sampler, batch_idx,
                   x_train, probabilities, loss, losses, accs, avg_acc,
                   applied, epoch_log, seen, eval_dropout>>

\* line 159
LossBackward ==
    /\ pc = "backward"
    /\ grad' = Backward(grad, requires_grad, loss)
    /\ pc' = "step"
    /\ UNCHANGED <<dataVars, gridVars, plotVars,
                   param, requires_grad, training, epoch, sampler, batch_idx,
                   x_train, probabilities, loss, losses, accs, avg_acc,
                   applied, epoch_log, seen, eval_dropout>>

\* line 160
OptimizerStep ==
    /\ pc = "step"
    /\ param' = AdamStep(param, grad)
    /\ applied' = grad
    /\ pc' = "record"
    /\ UNCHANGED <<dataVars, gridVars, plotVars,
                   requires_grad, grad, training, epoch, sampler, batch_idx,
                   x_train, probabilities, loss, losses, accs, avg_acc,
                   epoch_log, seen, eval_dropout>>

\* lines 162-164
Record ==
    /\ pc = "record"
    /\ accs' = Append(accs, [num |-> Accuracy(probabilities.vals, YTrain).num,
                             den |-> Accuracy(probabilities.vals, YTrain).den,
                             ver |-> probabilities.ver])
    /\ pc' = "fetch"
    /\ UNCHANGED <<dataVars, gridVars, plotVars,
                   param, requires_grad, grad, training, epoch, sampler,
                   batch_idx, x_train, probabilities, loss, losses, avg_acc,
                   applied, epoch_log, seen, eval_dropout>>

\* lines 166-170, and the loop's step to the next epoch
EpochEnd ==
    /\ pc = "epoch_end"
    /\ avg_acc' = Mean(accs)
    /\ epoch' = epoch + 1
    /\ pc' = "epoch"
    /\ UNCHANGED <<dataVars, gridVars, plotVars,
                   param, requires_grad, grad, training, sampler, batch_idx,
                   x_train, probabilities, loss, losses, accs, applied,
                   epoch_log, seen, eval_dropout>>

\* line 209: resnet_logits = resnet_model(test_examples)
Evaluate ==
    /\ pc = "eval"
    /\ eval_dropout' = DropoutActive(training)
    /\ pc' = "done"
    /\ UNCHANGED <<dataVars, gridVars, plotVars,
                   param, requires_grad, grad, training, epoch, sampler,
                   batch_idx, x_train, probabilities, loss, losses, accs,
                   avg_acc, applied, epoch_log, seen>>

TrainNext ==
    \/ Freeze
    \/ EpochStart
    \/ TrainingDone
    \/ NextBatch
    \/ BatchesExhausted
    \/ Forward
    \/ ComputeLoss
    \/ OptimizerZeroGrad
    \/ LossBackward
    \/ OptimizerStep
    \/ Record
    \/ EpochEnd
    \/ Evaluate

----------------------------------------------------------------------------
(* make_training_data, lines 42-51.  Coordinates are in units of 0.1. *)

\* largest sample_size tried
MaxSampleSize == 2

\* points make_moons may return (the noise makes any point possible)
Points == {<<0, 0>>, <<10, 5>>, <<20, -5>>}

\* sklearn.datasets.make_moons(n_samples): n_samples // 2 points of the
\* outer moon, labelled 0, and the rest of the inner moon, labelled 1,
\* shuffled together
MakeMoons(n_samples) ==
    {[X |-> X, y |-> y] :
        X \in [1..n_samples -> Points],
        y \in {l \in [1..n_samples -> {0, 1}] :
                 Cardinality({i \in 1..n_samples : l[i] = 0}) = n_samples \div 2}}

\* faulty variant: both labels are shifted the same way
OffsetSameForBoth(label) == <<-1, 2>>

\* the offset line 48 (label 0) and line 49 (label 1) add
Offset(label) == IF label = 0 THEN <<-1, 2>> ELSE <<1, -2>>

\* train_examples[train_labels == label] += Offset(label)
MaskedAdd(X, y, label) ==
    [i \in DOMAIN X |->
        IF y[i] = label
        THEN <<X[i][1] + Offset(label)[1], X[i][2] + Offset(label)[2]>>
        ELSE X[i]]

DataInit ==
    /\ d_pc = "call"
    /\ sample_size \in 1..MaxSampleSize
    /\ moons = [X |-> <<>>, y |-> <<>>]
    /\ d_examples = <<>>
    /\ d_ret = [examples |-> <<>>, labels |-> <<>>]

\* line 45
CallMakeMoons ==
    /\ d_pc = "call"
    /\ \E m \in MakeMoons(2 * sample_size) :
          /\ moons' = m
          /\ d_examples' = m.X
    /\ d_pc' = "shift0"
    /\ UNCHANGED <<trainVars, gridVars, plotVars, sample_size, d_ret>>

\* line 48
ShiftLabel0 ==
    /\ d_pc = "shift0"
    /\ d_examples' = MaskedAdd(d_examples, moons.y, 0)
    /\ d_pc' = "shift1"
    /\ UNCHANGED <<trainVars, gridVars, plotVars, sample_size, moons, d_ret>>

\* line 49
ShiftLabel1 ==
    /\ d_pc = "shift1"
    /\ d_examples' = MaskedAdd(d_examples, moons.y, 1)
    /\ d_pc' = "return"
    /\ UNCHANGED <<trainVars, gridVars, plotVars, sample_size, moons, d_ret>>

\* line 51
ReturnTrainingData ==
    /\ d_pc = "return"
    /\ d_ret' = [examples |-> d_examples, labels |-> moons.y]
    /\ d_pc' = "returned"
    /\ UNCHANGED <<trainVars, gridVars, plotVars, sample_size, moons,
                   d_examples>>

DataNext ==
    \/ CallMakeMoons
    \/ ShiftLabel0
    \/ ShiftLabel1
    \/ ReturnTrainingData

----------------------------------------------------------------------------
(* make_testing_data, lines 53-61, and the reshape of line 193.            *)
(* A coordinate of np.linspace(lo, hi, n) is kept as its numerator over    *)
(* the denominator Denominator(n).                                         *)

\* line 38 (100 in the script)
DEFAULT_N_GRID == 3

\* the ranges tried
Ranges == {<<lo, hi>> : lo \in {-2, -1}, hi \in {1, 2}}

Denominator(n) == IF n > 1 THEN n - 1 ELSE 1

\* np.linspace(lo, hi, n): lo + i * (hi - lo) / (n - 1) for i = 0..n-1, the
\* last one set to hi when n > 1
Linspace(lo, hi, n) ==
    [i \in 1..n |->
        IF n > 1 /\ i = n THEN hi * Denominator(n)
        ELSE lo * Denominator(n) + (i - 1) * (hi - lo)]

\* faulty variant: indexing 'ij'
MeshgridIJ(x, y) ==
    [xv |-> [i \in 1..Len(x) |-> [j \in 1..Len(y) |-> x[i]]],
     yv |-> [i \in 1..Len(x) |-> [j \in 1..Len(y) |-> y[j]]]]

\* np.meshgrid(x, y), indexing 'xy': both have Len(y) rows and Len(x) columns
Meshgrid(x, y) ==
    [xv |-> [j \in 1..Len(y) |-> [i \in 1..Len(x) |-> x[i]]],
     yv |-> [j \in 1..Len(y) |-> [i \in 1..Len(x) |-> y[j]]]]

\* ndarray.flatten(): row-major
Flatten(m) ==
    LET cols == IF Len(m) = 0 THEN 0 ELSE Len(m[1])
    IN  [k \in 1..(Len(m) * cols) |->
            m[((k - 1) \div cols) + 1][((k - 1) % cols) + 1]]

\* torch.stack([a, b], axis=-1)
Stack(a, b) == [k \in 1..Len(a) |-> <<a[k], b[k]>>]

\* np.reshape(a, [rows, cols]): row-major
Reshape(a, rows, cols) ==
    [r \in 1..rows |-> [c \in 1..cols |-> a[(r - 1) * cols + c]]]

\* ax.imshow(image, origin="lower", extent=x range + y range): the pixel of
\* row r and column c is drawn at the c-th x position from the left and the
\* r-th y position from the bottom
ImshowPosition(r, c) == [xi |-> c, yi |-> r]

GridInit ==
    /\ g_pc = "call"
    /\ x_range \in Ranges
    /\ y_range \in Ranges
    /\ n_grid \in 1..DEFAULT_N_GRID
    /\ g_x = <<>>
    /\ g_y = <<>>
    /\ g_mesh = [xv |-> <<>>, yv |-> <<>>]
    /\ test_examples = <<>>
    /\ image = <<>>

\* lines 57-58
CallLinspace ==
    /\ g_pc = "call"
    /\ g_x' = Linspace(x_range[1], x_range[2], n_grid)
    /\ g_y' = Linspace(y_range[1], y_range[2], n_grid)
    /\ g_pc' = "meshgrid"
    /\ UNCHANGED <<trainVars, dataVars, plotVars, x_range, y_range, n_grid,
                   g_mesh, test_examples, image>>

\* line 59
CallMeshgrid ==
    /\ g_pc = "meshgrid"
    /\ g_mesh' = Meshgrid(g_x, g_y)
    /\ g_pc' = "stack"
    /\ UNCHANGED <<trainVars, dataVars, plotVars, x_range, y_range, n_grid,
                   g_x, g_y, test_examples, image>>

\* line 61
ReturnTestingData ==
    /\ g_pc = "stack"
    /\ test_examples' = Stack(Flatten(g_mesh.xv), Flatten(g_mesh.yv))
    /\ g_pc' = "returned"
    /\ UNCHANGED <<trainVars, dataVars, plotVars, x_range, y_range, n_grid,
                   g_x, g_y, g_mesh, image>>

\* line 193: the scores, one per test example and in their order, reshaped to
\* [DEFAULT_N_GRID, DEFAULT_N_GRID]; the score of test example k is shown as k
PlotReshape ==
    /\ g_pc = "returned"
    /\ Len(test_examples) = DEFAULT_N_GRID * DEFAULT_N_GRID
    /\ image' = Reshape([k \in 1..Len(test_examples) |-> k],
                        DEFAULT_N_GRID, DEFAULT_N_GRID)
    /\ g_pc' = "plotted"
    /\ UNCHANGED <<trainVars, dataVars, plotVars, x_range, y_range, n_grid,
                   g_x, g_y, g_mesh, test_examples>>

\* line 193: np.reshape raises when the sizes differ
PlotReshapeError ==
    /\ g_pc = "returned"
    /\ Len(test_examples) # DEFAULT_N_GRID * DEFAULT_N_GRID
    /\ g_pc' = "error"
    /\ UNCHANGED <<trainVars, dataVars, plotVars, x_range, y_range, n_grid,
                   g_x, g_y, g_mesh, test_examples, image>>

GridNext ==
    \/ CallLinspace
    \/ CallMeshgrid
    \/ ReturnTestingData
    \/ PlotReshape
    \/ PlotReshapeError

----------------------------------------------------------------------------
(* The evaluation and the two plots, lines 209-227.  A float32 in [0, 1]   *)
(* is kept as a number of 1 / FOne units, and the result of every          *)
(* multiplication and division is rounded to the nearest unit, ties to     *)
(* even, as IEEE arithmetic rounds to the nearest float.                   *)

\* number of fraction bits of a score
FBits == 3
\* number of points of the evaluation grid
GridPoints == 2

FOne == 2 ^ FBits

\* a / b rounded to the nearest integer, ties to even (a >= 0, b > 0)
RoundDiv(a, b) ==
    LET q == a \div b
        r == a % b
    IN  IF 2 * r < b THEN q
        ELSE IF 2 * r > b THEN q + 1
        ELSE IF q % 2 = 0 THEN q ELSE q + 1

\* line 210: 1 - torch.sigmoid(resnet_logits), elementwise
ClassProb(s) == FOne - s

\* faulty variant: the complement is missing
UncertaintySquare(p) == RoundDiv(p * p, FOne)

\* line 223: resnet_probs * (1 - resnet_probs), elementwise
UncertaintyScore(p) == RoundDiv(p * (FOne - p), FOne)

\* torch.max(test_uncertainty)
RECURSIVE TorchMax(_)
TorchMax(a) ==
    IF Len(a) = 1 THEN a[1]
    ELSE LET m == TorchMax(Tail(a)) IN IF a[1] > m THEN a[1] ELSE m

\* float division v / m of non-negative floats: nan for 0 / 0, inf for v / 0
Divide(v, m) ==
    IF m = 0 THEN [kind |-> IF v = 0 THEN "nan" ELSE "inf", val |-> 0]
    ELSE [kind |-> "num", val |-> RoundDiv(v * FOne, m)]

\* faulty variant: the scores are divided by their minimum
NormalizeByMin(a) ==
    LET m == CHOOSE v \in {a[i] : i \in DOMAIN a} : \A j \in DOMAIN a : v <= a[j]
    IN  [i \in DOMAIN a |-> Divide(a[i], m)]

\* line 185: test_uncertainty / torch.max(test_uncertainty)
Normalize(a) == [i \in DOMAIN a |-> Divide(a[i], TorchMax(a))]

PlotInit ==
    /\ v_pc = "eval"
    /\ sigmoid_out = <<>>
    /\ resnet_probs = <<>>
    /\ resnet_uncertainty = <<>>
    /\ plot_input = <<>>
    /\ plot_output = <<>>

\* lines 209-210: the network's output on the grid, which may saturate at 0
\* and at 1, and the probability of class 0
ClassProbabilities ==
    /\ v_pc = "eval"
    /\ \E s \in [1..GridPoints -> 0..FOne] :
          /\ sigmoid_out' = s
          /\ resnet_probs' = [i \in 1..GridPoints |-> ClassProb(s[i])]
    /\ v_pc' = "plot_probs"
    /\ UNCHANGED <<trainVars, dataVars, gridVars, resnet_uncertainty,
                   plot_input, plot_output>>

\* line 214
PlotClassProbability ==
    /\ v_pc = "plot_probs"
    /\ plot_input' = resnet_probs
    /\ plot_output' = Normalize(resnet_probs)
    /\ v_pc' = "uncertainty"
    /\ UNCHANGED <<trainVars, dataVars, gridVars, sigmoid_out, resnet_probs,
                   resnet_uncertainty>>

\* line 223
ComputeUncertainty ==
    /\ v_pc = "uncertainty"
    /\ resnet_uncertainty' =
          [i \in 1..GridPoints |-> UncertaintyScore(resnet_probs[i])]
    /\ v_pc' = "plot_uncertainty"
    /\ UNCHANGED <<trainVars, dataVars, gridVars, sigmoid_out, resnet_probs,
                   plot_input, plot_output>>

\* line 227
PlotUncertainty ==
    /\ v_pc = "plot_uncertainty"
    /\ plot_input' = resnet_uncertainty
    /\ plot_output' = Normalize(resnet_uncertainty)
    /\ v_pc' = "done"
    /\ UNCHANGED <<trainVars, dataVars, gridVars, sigmoid_out, resnet_probs,
                   resnet_uncertainty>>

PlotNext ==
    \/ ClassProbabilities
    \/ PlotClassProbability
    \/ ComputeUncertainty
    \/ PlotUncertainty

----------------------------------------------------------------------------
(* The specifications: the stages are checked one at a time, the variables *)
(* of the other stages at rest.                                            *)

TrainIdle ==
    /\ pc = "idle"
    /\ param = InitialValue
    /\ requires_grad = [p \in ParamNames |-> TRUE]
    /\ grad = [p \in ParamNames |-> None]
    /\ training = TRUE
    /\ epoch = 0
    /\ sampler = {}
    /\ batch_idx = 0
    /\ x_train = {}
    /\ probabilities = NoProbs
    /\ loss = NoLoss
    /\ losses = <<>>
    /\ accs = <<>>
    /\ avg_acc = [num |-> 0, den |-> 1]
    /\ applied = [p \in ParamNames |-> None]
    /\ epoch_log = <<>>
    /\ seen = <<>>
    /\ eval_dropout = FALSE

DataIdle ==
    /\ d_pc = "idle"
    /\ sample_size = 0
    /\ moons = [X |-> <<>>, y |-> <<>>]
    /\ d_examples = <<>>
    /\ d_ret = [examples |-> <<>>, labels |-> <<>>]

GridIdle ==
    /\ g_pc = "idle"
    /\ x_range = <<0, 0>>
    /\ y_range = <<0, 0>>
    /\ n_grid = 0
    /\ g_x = <<>>
    /\ g_y = <<>>
    /\ g_mesh = [xv |-> <<>>, yv |-> <<>>]
    /\ test_examples = <<>>
    /\ image = <<>>

PlotIdle ==
    /\ v_pc = "idle"
    /\ sigmoid_out = <<>>
    /\ resnet_probs = <<>>
    /\ resnet_uncertainty = <<>>
    /\ plot_input = <<>>
    /\ plot_output = <<>>

\* the training script, lines 133-170 and 209
Init == TrainInit /\ DataIdle /\ GridIdle /\ PlotIdle
Next == TrainNext
Spec == Init /\ [][Next]_vars

\* the script is one thread that runs each statement to completion
FairSpec == Spec /\ WF_vars(Next)

\* make_training_data
DataSpecInit == TrainIdle /\ DataInit /\ GridIdle /\ PlotIdle
DataSpec == DataSpecInit /\ [][DataNext]_vars

\* make_testing_data and the reshape of its scores
GridSpecInit == TrainIdle /\ DataIdle /\ GridInit /\ PlotIdle
GridSpec == GridSpecInit /\ [][GridNext]_vars

\* the evaluation and the plots
PlotSpecInit == TrainIdle /\ DataIdle /\ GridIdle /\ PlotInit
PlotSpec == PlotSpecInit /\ [][PlotNext]_vars

----------------------------------------------------------------------------
(* The claims *)

\* the parameters that are trained
Trainable == ParamNames \ InputLayerParams

\* number of minibatches of an epoch
NumBatches == (TrainSize + batch_size - 1) \div batch_size

\* the positions of the script inside an epoch
InEpoch == {"fetch", "forward", "loss", "zero_grad", "backward", "step",
            "record", "epoch_end"}

\* C1: the weight and the bias of input_layer keep their initial values in
\* every state of the training run, although the optimizer holds them.
C1_FrozenInputLayer ==
    \A p \in InputLayerParams :
        /\ param[p] = InitialValue[p]
        /\ pc # "freeze" => ~requires_grad[p] /\ grad[p] = None

\* the run is over, every minibatch of every epoch updated the trained
\* parameters, and the input layer is as constructed
C1_Witness ==
    /\ pc = "done"
    /\ \A p \in Trainable : param[p] = InitialValue[p] + num_epochs * NumBatches
    /\ \A p \in InputLayerParams : param[p] = InitialValue[p]

\* C2 (as claimed): dropout is active in every forward pass of the training
\* loop and inactive in the forward pass over the evaluation grid.
C2_DropoutOffInEvaluation ==
    /\ pc \in {"loss", "zero_grad", "backward", "step", "record"}
          => probabilities.dropout
    /\ pc = "done" => ~eval_dropout

\* number of minibatches the dataloader iterator has still to yield
BatchesLeft == (Cardinality(sampler) + batch_size - 1) \div batch_size

\* statements of one epoch: its start, seven per minibatch, the exhausted
\* fetch and its end
StepsPerEpoch == 3 + 7 * NumBatches

\* statements left to run from a position inside an epoch to the epoch's end
StepsLeftInEpoch ==
    7 * BatchesLeft + 2 +
    CASE pc = "fetch" -> 0
      [] pc = "forward" -> 6
      [] pc = "loss" -> 5
      [] pc = "zero_grad" -> 4
      [] pc = "backward" -> 3
      [] pc = "step" -> 2
      [] pc = "record" -> 1
      [] pc = "epoch_end" -> -1

\* statements left to run if the loop runs epochs epoch, ..., num_epochs - 1
\* and nothing else
StepsLeft ==
    CASE pc = "freeze" -> 1 + num_epochs * StepsPerEpoch + 2
      [] pc = "epoch" -> (num_epochs - epoch) * StepsPerEpoch + 2
      [] pc \in InEpoch -> StepsLeftInEpoch + (num_epochs - epoch - 1) * StepsPerEpoch + 2
      [] pc = "eval" -> 1
      [] pc = "done" -> 0

\* C3: the training loop ends, and when it has ended it has run the epochs
\* 0, 1, ..., num_epochs - 1, each once and in this order, whatever the
\* losses and accuracies were: the script is never stuck before its end,
\* every statement brings the end of the num_epochs-th epoch one statement
\* nearer, and the epochs entered are 0, 1, 2, ... without gap or repeat.
C3_RunsEveryEpochInOrder ==
    /\ [](pc = "done" \/ ENABLED Next)
    /\ [](StepsLeft >= 0 /\ (StepsLeft = 0 <=> pc = "done"))
    /\ [][StepsLeft' = StepsLeft - 1]_vars
    /\ [](\A i \in 1..Len(epoch_log) : epoch_log[i] = i - 1)
    /\ [](pc \in {"eval", "done"} => epoch_log = [i \in 1..num_epochs |-> i - 1])

\* the loop has ended after num_epochs epochs, the last of them classified
\* perfectly
C3_Witness ==
    /\ pc = "done"
    /\ Len(epoch_log) = num_epochs
    /\ avg_acc.num = avg_acc.den

IsPartition(sq, S) ==
    /\ UNION {sq[k] : k \in 1..Len(sq)} = S
    /\ \A k, l \in 1..Len(sq) : k # l => sq[k] \cap sq[l] = {}
    /\ \A k \in 1..Len(sq) : sq[k] # {}

\* C4 (as claimed): the minibatches of an epoch partition the training set
\* and each of them holds exactly batch_size examples.
C4_EveryBatchIsFull ==
    pc = "epoch_end" =>
        /\ IsPartition(seen, Examples)
        /\ \A k \in 1..Len(seen) : Cardinality(seen[k]) = batch_size

\* C4 (amended): the minibatches of an epoch partition the training set;
\* each holds batch_size examples except the last, which holds the rest.
C4_LastBatchHoldsTheRest ==
    /\ \A k, l \in 1..Len(seen) : k # l => seen[k] \cap seen[l] = {}
    /\ \A k \in 1..Len(seen) :
          Cardinality(seen[k]) =
              IF k < NumBatches THEN batch_size
              ELSE TrainSize - (NumBatches - 1) * batch_size
    /\ pc = "epoch_end" => IsPartition(seen, Examples) /\ Len(seen) = NumBatches

\* the last epoch is over and its last minibatch was a short one
C4_Witness ==
    /\ pc = "epoch_end"
    /\ epoch = num_epochs - 1
    /\ Len(seen) = NumBatches
    /\ Cardinality(seen[NumBatches]) < batch_size
    /\ Cardinality(seen[NumBatches]) > 0

\* C5: in every minibatch the loss is computed from that minibatch's forward
\* pass, the gradient from that loss, and the update from that gradient
\* alone: what optimizer.step() consumes is the gradient of the current
\* minibatch's loss, with nothing accumulated from an earlier minibatch, and
\* the parameters it updates are those the forward pass ran on.
C5_GradientOfThisMinibatchOnly ==
    /\ pc \in {"zero_grad", "backward", "step", "record"} =>
          /\ probabilities.batch = <<epoch, batch_idx>>
          /\ loss.batch = probabilities.batch
    /\ pc = "step" =>
          \A p \in Trainable : grad[p] = Gradient(<< <<epoch, batch_idx>> >>)
    /\ pc = "record" =>
          \A p \in Trainable :
              /\ applied[p] = Gradient(<< <<epoch, batch_idx>> >>)
              /\ param[p] = probabilities.ver + 1

\* the first minibatch of the second epoch has just been applied
C5_Witness ==
    /\ pc = "record"
    /\ epoch = 1
    /\ batch_idx = 1
    /\ applied["classifier"] = Gradient(<< <<1, 1>> >>)

RECURSIVE TotalCorrect(_)
TotalCorrect(s) == IF s = <<>> THEN 0 ELSE Head(s).num + TotalCorrect(Tail(s))

RECURSIVE ProductOfSizes(_)
ProductOfSizes(s) ==
    IF s = <<>> THEN 1 ELSE Head(s).den * ProductOfSizes(Tail(s))

\* the sum of the fractions of s, in units of 1 / P
RECURSIVE SumInUnits(_, _)
SumInUnits(s, P) ==
    IF s = <<>> THEN 0
    ELSE Head(s).num * (P \div Head(s).den) + SumInUnits(Tail(s), P)

\* q is the unweighted mean of the fractions of s
IsMeanOf(q, s) ==
    q.num * Len(s) * ProductOfSizes(s) = q.den * SumInUnits(s, ProductOfSizes(s))

\* C10 (as claimed): one loss and one accuracy per minibatch of the epoch,
\* and the reported average accuracy is the fraction of the training examples
\* classified correctly in the epoch.
C10_AverageIsFractionCorrect ==
    /\ pc = "epoch_end" => Len(losses) = NumBatches /\ Len(accs) = NumBatches
    /\ pc = "epoch" /\ epoch > 0 =>
          avg_acc.num * TrainSize = TotalCorrect(accs) * avg_acc.den

\* C10 (amended): at every point of an epoch the lists hold one loss and one
\* accuracy per minibatch done in this epoch; each accuracy is the share of
\* the minibatch whose probability, computed before the minibatch's update,
\* is strictly above 0.5 exactly when the label is 1; the reported average is
\* the unweighted mean of the minibatch accuracies.
C10_AverageIsMeanOfBatchAccuracies ==
    /\ pc = "fetch" => Len(losses) = batch_idx /\ Len(accs) = batch_idx
    /\ pc = "epoch_end" => Len(losses) = NumBatches /\ Len(accs) = NumBatches
    /\ pc \in InEpoch =>
          \A k \in 1..Len(accs) : accs[k].ver = epoch * NumBatches + k - 1
    /\ pc = "fetch" /\ batch_idx > 0 =>
          /\ accs[batch_idx].num =
                Cardinality({i \in x_train :
                    (probabilities.vals[i] > Half) <=> (train_labels[i] = 1)})
          /\ accs[batch_idx].den = Cardinality(x_train)
          /\ accs[batch_idx].ver = param["classifier"] - 1
    /\ pc = "epoch" /\ epoch > 0 => IsMeanOf(avg_acc, accs)

\* an epoch is over whose average accuracy is not the fraction of the
\* examples classified correctly
C10_Witness ==
    /\ pc = "epoch"
    /\ epoch = num_epochs
    /\ Len(accs) = NumBatches
    /\ IsMeanOf(avg_acc, accs)
    /\ avg_acc.num * TrainSize # TotalCorrect(accs) * avg_acc.den

Count(sq, v) == Cardinality({i \in 1..Len(sq) : sq[i] = v})

\* C6: make_training_data(n) returns 2n points and 2n labels, n labels 0 and
\* n labels 1, the labels make_moons gave; each point is the point make_moons
\* gave moved once by (-0.1, +0.2) when its label is 0 and once by
\* (+0.1, -0.2) when its label is 1.
C6_ShiftedOncePerLabel ==
    d_pc = "returned" =>
        /\ Len(d_ret.examples) = 2 * sample_size
        /\ Len(d_ret.labels) = 2 * sample_size
        /\ \A i \in 1..Len(d_ret.labels) : d_ret.labels[i] \in {0, 1}
        /\ Count(d_ret.labels, 0) = sample_size
        /\ Count(d_ret.labels, 1) = sample_size
        /\ d_ret.labels = moons.y
        /\ \A i \in 1..Len(d_ret.examples) :
              d_ret.examples[i] =
                  IF d_ret.labels[i] = 0
                  THEN <<moons.X[i][1] - 1, moons.X[i][2] + 2>>
                  ELSE <<moons.X[i][1] + 1, moons.X[i][2] - 2>>

\* the largest data set has been returned, its labels shuffled
C6_Witness ==
    /\ d_pc = "returned"
    /\ sample_size = MaxSampleSize
    /\ Len(d_ret.examples) = 2 * MaxSampleSize
    /\ d_ret.labels[1] = 1
    /\ d_ret.labels[2] = 0

\* the i-th of n_grid evenly spaced values from lo to hi, as a numerator
Lattice(range, i) ==
    range[1] * Denominator(n_grid) + (i - 1) * (range[2] - range[1])

\* v is a coordinate of column col of some test example
Covered(col, v) == \E k \in 1..Len(test_examples) : test_examples[k][col] = v

\* what C7 says of the points and of their order
GridPointsAndOrder ==
    /\ g_pc \in {"returned", "plotted", "error"} =>
          /\ Len(test_examples) = n_grid * n_grid
          /\ \A i, j \in 1..n_grid :
                /\ Cardinality({k \in 1..Len(test_examples) :
                      test_examples[k] = <<Lattice(x_range, i), Lattice(y_range, j)>>}) = 1
                /\ test_examples[(j - 1) * n_grid + i] =
                      <<Lattice(x_range, i), Lattice(y_range, j)>>
          /\ Covered(1, x_range[1] * Denominator(n_grid))
          /\ Covered(2, y_range[1] * Denominator(n_grid))
    /\ g_pc = "plotted" =>
          \A r, c \in 1..DEFAULT_N_GRID :
              LET at == ImshowPosition(r, c)
              IN  test_examples[image[r][c]] =
                      <<Lattice(x_range, at.xi), Lattice(y_range, at.yi)>>

\* both upper endpoints are coordinates of test examples
UpperEndpoints ==
    g_pc \in {"returned", "plotted", "error"} =>
        /\ Covered(1, x_range[2] * Denominator(n_grid))
        /\ Covered(2, y_range[2] * Denominator(n_grid))

\* C7 (as claimed): make_testing_data returns n_grid * n_grid points, each
\* pair of the evenly spaced x and y values once, x in column 0 and y in
\* column 1, y outer and x inner, both endpoints of both ranges included, and
\* the score drawn at a position of the plot is that of the point there.
C7_LatticeWithBothEndpoints == GridPointsAndOrder /\ UpperEndpoints

\* C7 (amended): as claimed, with the upper endpoints included when
\* n_grid >= 2; with n_grid = 1 the only point is the lower corner.
C7_LatticeEndpointsFromTwo ==
    /\ GridPointsAndOrder
    /\ n_grid >= 2 => UpperEndpoints
    /\ n_grid = 1 /\ g_pc \in {"returned", "plotted", "error"} =>
          test_examples = << <<x_range[1], y_range[1]>> >>

\* the full grid has been drawn, over a rectangle that is not a square
C7_Witness ==
    /\ g_pc = "plotted"
    /\ n_grid = DEFAULT_N_GRID
    /\ x_range # y_range
    /\ Len(test_examples) = DEFAULT_N_GRID * DEFAULT_N_GRID

\* a plot has been drawn
Plotted == v_pc \in {"uncertainty", "plot_uncertainty", "done"}

\* the rendered scores are numbers of [0, 1] and their maximum is 1
MaxIsOne ==
    /\ \A i \in DOMAIN plot_output :
          plot_output[i].kind = "num" /\ plot_output[i].val \in 0..FOne
    /\ \E i \in DOMAIN plot_output :
          plot_output[i].kind = "num" /\ plot_output[i].val = FOne

\* C8 (as claimed): whatever scores plot_uncertainty_surface is passed, the
\* normalized scores lie in [0, 1] and their maximum is exactly 1.
C8_NormalizedMaxIsOne == Plotted => MaxIsOne

\* C8 (amended): so it is when some score is above 0; when every score is 0
\* every normalized score is nan.
C8_NormalizedMaxIsOneUnlessAllZero ==
    Plotted =>
        IF \E i \in DOMAIN plot_input : plot_input[i] > 0
        THEN MaxIsOne
        ELSE \A i \in DOMAIN plot_output : plot_output[i].kind = "nan"

\* the uncertainty has been drawn, one of its scores strictly between 0 and
\* the maximum
C8_Witness ==
    /\ v_pc = "done"
    /\ \E i \in DOMAIN plot_input : plot_input[i] > 0
    /\ \E i \in DOMAIN plot_output :
          plot_output[i].kind = "num" /\ plot_output[i].val \in 1..(FOne - 1)

Scored == v_pc \in {"plot_uncertainty", "done"}

\* 0.25
Quarter == FOne \div 4

\* what C9 says of the zeros and of the bounds of p * (1 - p)
ZeroAtTheEndsOnly ==
    \A i \in DOMAIN resnet_uncertainty :
        /\ resnet_uncertainty[i] = 0 <=> resnet_probs[i] \in {0, FOne}
        /\ resnet_uncertainty[i] >= 0
        /\ resnet_uncertainty[i] <= Quarter
        /\ 2 * resnet_probs[i] = FOne => resnet_uncertainty[i] = Quarter

\* C9 (as claimed): p * (1 - p) is 0 exactly at p = 0 and p = 1, nowhere
\* negative, and it is 0.25, its maximum, at p = 0.5 and nowhere else.
C9_MaximumOnlyAtHalf ==
    Scored =>
        /\ ZeroAtTheEndsOnly
        /\ \A i \in DOMAIN resnet_uncertainty :
              resnet_uncertainty[i] = Quarter => 2 * resnet_probs[i] = FOne

\* C9 (amended): as claimed, but the computed score is 0.25 also at the p
\* next to 0.5 whose product rounds to 0.25: those with (p - 0.5)^2 at most
\* half a unit of the score.
C9_MaximumAroundHalf ==
    Scored =>
        /\ ZeroAtTheEndsOnly
        /\ \A i \in DOMAIN resnet_uncertainty :
              resnet_uncertainty[i] = Quarter
                  <=> (2 * resnet_probs[i] - FOne) ^ 2 <= 2 * FOne

\* a probability other than 0.5 whose score is 0.25, next to one whose score
\* is 0
C9_Witness ==
    /\ v_pc = "done"
    /\ \E i, j \in DOMAIN resnet_uncertainty :
          /\ 2 * resnet_probs[i] # FOne
          /\ resnet_uncertainty[i] = Quarter
          /\ resnet_probs[j] = FOne
          /\ resnet_uncertainty[j] = 0

====
